---- MODULE Spec2Model ----
(***************************************************************************)
(* OAuth 2.0 authorization-server core of gogin                            *)
(* (internal/modules/oauth2/service.go and its collaborators).             *)
(*                                                                         *)
(* State: the rows of oauth_clients, oauth_authorization_codes and         *)
(* oauth_tokens, the clock, and the position and locals of every token     *)
(* request in flight.  One database round trip is one atomic step; the     *)
(* checks a handler makes between two round trips belong to the step of    *)
(* the round trip before them.                                             *)
(*                                                                         *)
(* Strings the code searches or splits (redirect_uris, scopes,             *)
(* grant_types) are sequences of symbols; a symbol is one character for    *)
(* redirect URIs and one word or one blank for scopes and grant types.     *)
(* Strings the code only compares (secrets, verifiers, challenges, error   *)
(* messages) are TLA+ strings.  Time is counted in minutes.                *)
(***************************************************************************)
EXTENDS Integers, Sequences, FiniteSets, TLC

\* ------------------------------------------------------------------ bounds
MaxCodes == 2
MaxTokens == 2
MaxReqs == 2
MaxTime == 12

\* --------------------------------------------------------- program constants
\* time.Now().Add(10 * time.Minute)
CodeTTL == 10
\* OAUTH_ACCESS_TOKEN_EXPIRY default 3600 s
AccessTokenExpiry == 60
\* OAUTH_REFRESH_TOKEN_EXPIRY default 2592000 s
RefreshTokenExpiry == 43200

\* ------------------------------------------------------------ string helpers
\* strings.Contains(s, sub)
Contains(s, sub) ==
    \E i \in 1..(Len(s) - Len(sub) + 1) : SubSeq(s, i, i + Len(sub) - 1) = sub

RECURSIVE Join(_, _)
\* strings.Join(parts, sep)
Join(parts, sep) ==
    IF Len(parts) = 0 THEN <<>>
    ELSE IF Len(parts) = 1 THEN parts[1]
    ELSE parts[1] \o sep \o Join(Tail(parts), sep)

RECURSIVE Split(_, _)
\* strings.Split(s, sep) for a one-symbol separator: always at least one part
Split(s, sep) ==
    IF \A i \in 1..Len(s) : s[i] # sep THEN <<s>>
    ELSE LET k == CHOOSE i \in 1..Len(s) :
                      s[i] = sep /\ \A j \in 1..(i - 1) : s[j] # sep
         IN  <<SubSeq(s, 1, k - 1)>> \o Split(SubSeq(s, k + 1, Len(s)), sep)

\* json.Marshal([]string): ["u1","u2"] (no symbol of the URIs needs escaping)
Quote(u) == <<"\"">> \o u \o <<"\"">>

MarshalJSON(list) ==
    <<"[">> \o Join([i \in 1..Len(list) |-> Quote(list[i])], <<",">>) \o <<"]">>

\* base64.RawURLEncoding(sha256(verifier)): a collision-free digest table over
\* the verifiers of the model; no digest equals its preimage.
Sha256B64(v) ==
    CASE v = ""   -> "h0"
      [] v = "v1" -> "h1"
      [] v = "v2" -> "h2"
      [] OTHER    -> "h?"

\* ------------------------------------------------------------------ domains
ClientIDs == {"cA", "cB"}
\* a client identifier no row of oauth_clients carries
UnknownClient == "cX"
UserIDs == {"u1", "u2"}
Reqs == 1..MaxReqs

GoodURI == <<"a", "b">>
OtherURI == <<"c", "d">>
\* a proper prefix, an extension and a fragment of the stored JSON list
PrefixURI == <<"a">>
ExtendedURI == <<"a", "b", "x">>
FragmentURI == <<"\"", ",", "\"">>
URIs == {GoodURI, PrefixURI, ExtendedURI, FragmentURI}

ScopeRW == <<"read", " ", "write">>
ScopeR == <<"read">>

Secrets == {"", "sA", "sB"}
Verifiers == {"", "v1", "v2"}

\* sql.NullString
Null == [Valid |-> FALSE, String |-> ""]
NullString(s) == [Valid |-> TRUE, String |-> s]

NoReq == [grant_type |-> ""]
NoResp == [err |-> "none"]
NoToken == [jti |-> 0]
\* a token string that is no JWT
Malformed == [jti |-> -1]
NoOp == [op |-> "none"]

VARIABLES now, clients, codes, tokens, pc, treq, authCode, resp, authResp,
          revoked, redisUp, last, refreshed

\* The revocation list in Redis, whether Redis answers, the last answer of the
\* revoke, introspect and middleware handlers, and (history) the refresh tokens
\* redeemed so far
ledger == <<revoked, redisUp, last, refreshed>>

vars == <<now, clients, codes, tokens, pc, treq, authCode, resp, authResp,
          revoked, redisUp, last, refreshed>>

\* ------------------------------------------------------------ client registry
\* APIClientService.CreateClient: the row of a freshly registered client
ClientRow(secret, redirects, scopes, grants, public) ==
    [client_secret |-> secret,
     redirect_uris |-> MarshalJSON(redirects),
     scopes        |-> scopes,
     grant_types   |-> Join(grants, <<" ">>),
     is_public     |-> public,
     is_active     |-> TRUE,
     deleted       |-> FALSE]

\* SELECT ... FROM oauth_clients WHERE client_id = $1 AND deleted_at IS NULL
ClientFound(cid) == cid \in DOMAIN clients /\ ~clients[cid].deleted

\* APIClientService.UpdateStatus
UpdateStatus(cid, active) ==
    /\ ClientFound(cid)
    /\ clients[cid].is_active # active
    /\ clients' = [clients EXCEPT ![cid].is_active = active]
    /\ UNCHANGED <<now, codes, tokens, pc, treq, authCode, resp, authResp>>
    /\ UNCHANGED ledger

\* APIClientService.DeleteClient (soft delete)
DeleteClient(cid) ==
    /\ ClientFound(cid)
    /\ clients' = [clients EXCEPT ![cid].deleted = TRUE]
    /\ UNCHANGED <<now, codes, tokens, pc, treq, authCode, resp, authResp>>
    /\ UNCHANGED ledger

\* ------------------------------------------------------------------ authorize
validateRedirectURI(client, redirectURI) ==
    Contains(client.redirect_uris, redirectURI)

\* CreateAuthorizationCode without its check of client.IsActive
AuthorizeError_NoActiveCheck(req) ==
    IF ~ClientFound(req.client_id) THEN "invalid client"
    ELSE IF ~validateRedirectURI(clients[req.client_id], req.redirect_uri)
         THEN "invalid redirect URI"
    ELSE ""

\* The error CreateAuthorizationCode returns, "" when it creates the code
AuthorizeError(req) ==
    IF ~ClientFound(req.client_id) THEN "invalid client"
    ELSE IF ~clients[req.client_id].is_active THEN "client is inactive"
    ELSE IF ~validateRedirectURI(clients[req.client_id], req.redirect_uri)
         THEN "invalid redirect URI"
    ELSE ""

\* The row CreateAuthorizationCode inserts; the code value is the row's index
NewAuthCode(userID, req) ==
    [code                  |-> Len(codes) + 1,
     client_id             |-> req.client_id,
     user_id               |-> userID,
     redirect_uri          |-> req.redirect_uri,
     scopes                |-> req.scope,
     code_challenge        |-> IF req.code_challenge # ""
                               THEN NullString(req.code_challenge) ELSE Null,
     code_challenge_method |-> IF req.code_challenge # ""
                               THEN NullString(req.code_challenge_method) ELSE Null,
     expires_at            |-> now + CodeTTL,
     is_used               |-> FALSE]

\* OAuth2Service.CreateAuthorizationCode behind POST /oauth/authorize
CreateAuthorizationCode(userID, req) ==
    /\ Len(codes) < MaxCodes
    /\ IF AuthorizeError(req) = ""
       THEN /\ codes' = Append(codes, NewAuthCode(userID, req))
            /\ authResp' = [err |-> "", code |-> Len(codes) + 1]
       ELSE /\ codes' = codes
            /\ authResp' = [err |-> AuthorizeError(req), code |-> 0]
    /\ UNCHANGED <<now, clients, tokens, pc, treq, authCode, resp>>
    /\ UNCHANGED ledger

\* ---------------------------------------------------------------------- clock
IsExpired(c) == now > c.expires_at

Deadlines == {codes[i].expires_at : i \in 1..Len(codes)}

\* Time passes: to a deadline, or to the first minute after one
Tick ==
    /\ \E d \in Deadlines : \E t \in {d, d + 1} :
          /\ t > now
          /\ t <= MaxTime
          /\ now' = t
    /\ UNCHANGED <<clients, codes, tokens, pc, treq, authCode, resp, authResp>>
    /\ UNCHANGED ledger

\* ---------------------------------------------------------------- token codec
\* The HMAC key of JWTUtil: a token's sig names the key it was signed with
JWTSecret == "k"

\* JWTClaims as GenerateAccessToken fills them; the token's jti is fresh
AccessJWT(jti, userID, clientID, role, scopes, expiry) ==
    [jti |-> jti, user_id |-> userID, client_id |-> clientID, role |-> role,
     scopes |-> scopes, sub |-> userID, exp |-> now + expiry, iat |-> now,
     alg |-> "HS256", sig |-> JWTSecret]

\* JWTClaims as GenerateRefreshToken fills them: no role, no scopes
RefreshJWT(jti, userID, clientID, expiry) ==
    [jti |-> jti, user_id |-> userID, client_id |-> clientID, role |-> "",
     scopes |-> <<>>, sub |-> userID, exp |-> now + expiry, iat |-> now,
     alg |-> "HS256", sig |-> JWTSecret]

\* JWTClaims as GenerateClientToken fills them: no user, the client is the subject
ClientJWT(jti, clientID, scopes, expiry) ==
    [jti |-> jti, user_id |-> "", client_id |-> clientID, role |-> "",
     scopes |-> scopes, sub |-> clientID, exp |-> now + expiry, iat |-> now,
     alg |-> "HS256", sig |-> JWTSecret]

\* --------------------------------------------------------- token endpoint
\* A request leaves the handler: its response is recorded, its locals are gone
Respond(r, response) ==
    /\ pc' = [pc EXCEPT ![r] = "idle"]
    /\ treq' = [treq EXCEPT ![r] = NoReq]
    /\ authCode' = [authCode EXCEPT ![r] = 0]
    /\ resp' = [resp EXCEPT ![r] = response]

Fail(r, msg) == Respond(r, [err |-> msg])

\* OAuth2Module.token: the request body is bound, the grant type dispatched next
TokenReceive(r, req) ==
    /\ pc[r] = "idle"
    /\ pc' = [pc EXCEPT ![r] = "bound"]
    /\ treq' = [treq EXCEPT ![r] = req]
    /\ resp' = [resp EXCEPT ![r] = NoResp]
    /\ UNCHANGED <<now, clients, codes, tokens, authCode, authResp>>
    /\ UNCHANGED ledger

\* The grant types the binding of TokenRequest admits (oneof), and the cases
\* of the switch in OAuth2Module.token
OneOfGrantTypes == {"authorization_code", "client_credentials", "refresh_token"}
SwitchGrantTypes == {"authorization_code", "client_credentials", "refresh_token"}

\* The answer of OAuth2Module.token to a request no grant is run for: the
\* binding fails with 422, the default case of the switch answers 400;
\* NoResp when a grant is dispatched
TokenRefusal(req) ==
    IF req.grant_type \notin OneOfGrantTypes \/ req.client_id = ""
    THEN [err |-> "Validation failed", code |-> "VALIDATION_ERROR"]
    ELSE IF req.grant_type \notin SwitchGrantTypes
    THEN [err |-> "Unsupported grant type", code |-> "BAD_REQUEST"]
    ELSE NoResp

\* OAuth2Module.token on a request it refuses before any grant
TokenRefuse(r, req) ==
    /\ pc[r] = "idle"
    /\ TokenRefusal(req) # NoResp
    /\ Respond(r, TokenRefusal(req))
    /\ UNCHANGED <<now, clients, codes, tokens, authResp>>
    /\ UNCHANGED ledger

\* The rows SELECT ... WHERE code = $1 AND is_used = FALSE returns
SelectCode(code) ==
    {i \in 1..Len(codes) : codes[i].code = code /\ ~codes[i].is_used}

\* verifyPKCE comparing the verifier itself whatever the method
verifyPKCE_PlainOnly(challenge, method, verifier) == verifier = challenge

verifyPKCE(challenge, method, verifier) ==
    IF method = "S256" THEN Sha256B64(verifier) = challenge
    ELSE verifier = challenge

\* ExchangeCodeForToken without its comparison of the code's client
ExchangeError_NoClientCheck(ac, req) ==
    IF IsExpired(ac) THEN "authorization code expired"
    ELSE IF ac.redirect_uri # req.redirect_uri THEN "redirect URI mismatch"
    ELSE IF /\ ac.code_challenge.Valid
            /\ ~verifyPKCE(ac.code_challenge.String,
                           ac.code_challenge_method.String, req.code_verifier)
         THEN "invalid code verifier"
    ELSE ""

\* The checks of ExchangeCodeForToken on the row it read, in the code's order:
\* the error returned, "" when the code goes on to be marked used
ExchangeError(ac, req) ==
    IF IsExpired(ac) THEN "authorization code expired"
    ELSE IF ac.client_id # req.client_id THEN "client mismatch"
    ELSE IF ac.redirect_uri # req.redirect_uri THEN "redirect URI mismatch"
    ELSE IF /\ ac.code_challenge.Valid
            /\ ~verifyPKCE(ac.code_challenge.String,
                           ac.code_challenge_method.String, req.code_verifier)
         THEN "invalid code verifier"
    ELSE ""

\* ExchangeCodeForToken, first round trip: read the unused code and check it
ExchSelect(r) ==
    /\ pc[r] = "bound"
    /\ treq[r].grant_type = "authorization_code"
    /\ IF SelectCode(treq[r].code) = {}
       THEN Fail(r, "invalid authorization code")
       ELSE LET i == CHOOSE i \in SelectCode(treq[r].code) : TRUE
            IN  IF ExchangeError(codes[i], treq[r]) # ""
                THEN Fail(r, ExchangeError(codes[i], treq[r]))
                ELSE /\ pc' = [pc EXCEPT ![r] = "update"]
                     /\ authCode' = [authCode EXCEPT ![r] = i]
                     /\ UNCHANGED <<treq, resp>>
    /\ UNCHANGED <<now, clients, codes, tokens, authResp>>
    /\ UNCHANGED ledger

\* second round trip: UPDATE ... SET is_used = TRUE WHERE id = $1
ExchUpdate(r) ==
    /\ pc[r] = "update"
    /\ codes' = [codes EXCEPT ![authCode[r]].is_used = TRUE]
    /\ pc' = [pc EXCEPT ![r] = "getclient"]
    /\ UNCHANGED <<now, clients, tokens, treq, authCode, resp, authResp>>
    /\ UNCHANGED ledger

\* ExchangeCodeForToken accepting every secret
ExchangeSecretOK_Always(client, req) == TRUE

\* The secret check of ExchangeCodeForToken: public clients present none
ExchangeSecretOK(client, req) ==
    client.is_public \/ req.client_secret = client.client_secret

\* The error of the client lookup and secret check of ExchangeCodeForToken
\* ("" if none): GetClientByClientID hands back the scan error of the empty
\* result set.
ExchangeClientError(req) ==
    IF ~ClientFound(req.client_id) THEN "sql: no rows in result set"
    ELSE IF ~ExchangeSecretOK(clients[req.client_id], req)
         THEN "invalid client secret"
    ELSE ""

\* third round trip: read the client, then compare the secret
ExchGetClient(r) ==
    /\ pc[r] = "getclient"
    /\ IF ExchangeClientError(treq[r]) # ""
       THEN Fail(r, ExchangeClientError(treq[r]))
       ELSE /\ pc' = [pc EXCEPT ![r] = "insert"]
            /\ UNCHANGED <<treq, authCode, resp>>
    /\ UNCHANGED <<now, clients, codes, tokens, authResp>>
    /\ UNCHANGED ledger

\* The oauth_tokens row and the response generateTokens builds.  from_code is
\* history: the code the pair was issued for, 0 for the other grants.
TokenPair(userID, clientID, scopes, fromCode) ==
    [access_token  |-> AccessJWT(2 * Len(tokens) + 1, userID, clientID, "",
                                 scopes, AccessTokenExpiry),
     refresh_token |-> RefreshJWT(2 * Len(tokens) + 2, userID, clientID,
                                  RefreshTokenExpiry),
     expires_at    |-> now + AccessTokenExpiry,
     scopes        |-> Join(scopes, <<" ">>),
     client_id     |-> clientID,
     user_id       |-> userID,
     is_revoked    |-> FALSE,
     from_code     |-> fromCode]

TokenResponse(row) ==
    [err |-> "", access_token |-> row.access_token,
     refresh_token |-> row.refresh_token, scope |-> row.scopes]

\* OAuth2Service.generateTokens: one INSERT into oauth_tokens
generateTokens(r, userID, clientID, scopes, fromCode) ==
    /\ Len(tokens) < MaxTokens
    /\ tokens' = Append(tokens, TokenPair(userID, clientID, scopes, fromCode))
    /\ Respond(r, TokenResponse(TokenPair(userID, clientID, scopes, fromCode)))

\* fourth round trip: the tokens are generated and stored
ExchInsert(r) ==
    /\ pc[r] = "insert"
    /\ generateTokens(r, codes[authCode[r]].user_id, treq[r].client_id,
                      Split(codes[authCode[r]].scopes, " "), authCode[r])
    /\ UNCHANGED <<now, clients, codes, authResp>>
    /\ UNCHANGED ledger

\* The checks of ClientCredentialsGrant, in the code's order
ClientCredentialsError(req) ==
    IF ~ClientFound(req.client_id) THEN "invalid client"
    ELSE IF ~clients[req.client_id].is_active THEN "client is inactive"
    ELSE IF req.client_secret # clients[req.client_id].client_secret
         THEN "invalid client secret"
    ELSE IF ~Contains(clients[req.client_id].grant_types, <<"client_credentials">>)
         THEN "grant type not allowed"
    ELSE ""

\* ClientCredentialsGrant issuing a refresh token with the access token
ClientTokenRow_WithRefresh(clientID, scope) ==
    [access_token  |-> ClientJWT(2 * Len(tokens) + 1, clientID,
                                 Split(scope, " "), AccessTokenExpiry),
     refresh_token |-> RefreshJWT(2 * Len(tokens) + 2, "", clientID,
                                  RefreshTokenExpiry),
     expires_at    |-> now + AccessTokenExpiry,
     scopes        |-> scope,
     client_id     |-> clientID,
     user_id       |-> "",
     is_revoked    |-> FALSE,
     from_code     |-> 0]

\* The oauth_tokens row ClientCredentialsGrant inserts: no refresh token, no user
ClientTokenRow(clientID, scope) ==
    [access_token  |-> ClientJWT(2 * Len(tokens) + 1, clientID,
                                 Split(scope, " "), AccessTokenExpiry),
     refresh_token |-> NoToken,
     expires_at    |-> now + AccessTokenExpiry,
     scopes        |-> scope,
     client_id     |-> clientID,
     user_id       |-> "",
     is_revoked    |-> FALSE,
     from_code     |-> 0]

\* OAuth2Service.ClientCredentialsGrant
ClientCredentialsGrant(r) ==
    /\ pc[r] = "bound"
    /\ treq[r].grant_type = "client_credentials"
    /\ IF ClientCredentialsError(treq[r]) # ""
       THEN /\ Fail(r, ClientCredentialsError(treq[r]))
            /\ tokens' = tokens
       ELSE LET scope == IF treq[r].scope = <<>>
                         THEN clients[treq[r].client_id].scopes
                         ELSE treq[r].scope
            IN  /\ Len(tokens) < MaxTokens
                /\ tokens' = Append(tokens, ClientTokenRow(treq[r].client_id, scope))
                /\ Respond(r, TokenResponse(ClientTokenRow(treq[r].client_id, scope)))
    /\ UNCHANGED <<now, clients, codes, authResp>>
    /\ UNCHANGED ledger

\* ------------------------------------------------------- token validation
\* the algorithms of *jwt.SigningMethodHMAC
HMACMethods == {"HS256", "HS384", "HS512"}

\* JWTUtil.ValidateToken: the error it returns, "" when it returns the claims.
\* The parser rejects a token at its expiry instant and after it.
ValidateToken(t) ==
    IF t.jti <= 0 THEN "failed to parse token: token is malformed"
    ELSE IF t.alg \notin HMACMethods
         THEN "failed to parse token: unexpected signing method"
    ELSE IF t.sig # JWTSecret THEN "failed to parse token: signature is invalid"
    ELSE IF ~(now < t.exp) THEN "failed to parse token: token is expired"
    ELSE ""

\* --------------------------------------------------------- revocation list
\* RevokeToken writing an entry that has lapsed as soon as it is written
RevocationEntry_Lapsed(tokenID, expiresAt) == [jti |-> tokenID, exp |-> now]

\* RedisHelper.RevokeToken: SET revoked_token:<jti> "revoked" with
\* ttl = time.Until(expiresAt); the entry is gone once the ttl has run out
RevocationEntry(tokenID, expiresAt) ==
    [jti |-> tokenID, exp |-> now + (expiresAt - now)]

\* IsTokenRevoked answering "revoked" when Redis fails
IsTokenRevoked_FailClosed(tokenID) ==
    IF redisUp
    THEN [revoked |-> \E e \in revoked : e.jti = tokenID /\ now < e.exp, err |-> ""]
    ELSE [revoked |-> TRUE, err |-> "redis: connection refused"]

\* RedisHelper.IsTokenRevoked: EXISTS revoked_token:<jti>; (false, err) when
\* Redis fails
IsTokenRevoked(tokenID) ==
    IF redisUp
    THEN [revoked |-> \E e \in revoked : e.jti = tokenID /\ now < e.exp, err |-> ""]
    ELSE [revoked |-> FALSE, err |-> "redis: connection refused"]

\* The keys revoked_token:* Redis holds: an entry is deleted when its ttl has
\* run out
RevokedKeys == {e \in revoked : now < e.exp}

\* RedisHelper.RevokeToken writing its entry whatever the ttl
HelperRevoke_NoTTLCheck(tokenID, expiresAt) ==
    IF ~redisUp THEN revoked
    ELSE {e \in revoked : e.jti # tokenID}
         \cup {RevocationEntry(tokenID, expiresAt)}

\* RedisHelper.RevokeToken writing an entry for the other token of the pair too
HelperRevoke_Pair(tokenID, expiresAt) ==
    IF expiresAt - now <= 0 THEN revoked
    ELSE IF ~redisUp THEN revoked
    ELSE {e \in revoked : e.jti # tokenID}
         \cup {RevocationEntry(tokenID, expiresAt),
               RevocationEntry(IF tokenID % 2 = 1 THEN tokenID + 1 ELSE tokenID - 1,
                               expiresAt)}

\* RedisHelper.RevokeToken: the list it leaves.  Nothing is written when the
\* ttl is not positive; SET replaces the entry the key had.
HelperRevoke(tokenID, expiresAt) ==
    IF expiresAt - now <= 0 THEN revoked
    ELSE IF ~redisUp THEN revoked
    ELSE {e \in revoked : e.jti # tokenID}
         \cup {RevocationEntry(tokenID, expiresAt)}

\* RedisHelper.RevokeToken: the error it returns, "" for nil
HelperRevokeError(tokenID, expiresAt) ==
    IF expiresAt - now <= 0 THEN ""
    ELSE IF ~redisUp THEN "redis: connection refused"
    ELSE ""

\* RedisHelper.RevokeToken called by any of its users
LedgerRevoke(tokenID, expiresAt) ==
    /\ revoked' = HelperRevoke(tokenID, expiresAt)
    /\ last' = [op |-> "ledger", err |-> HelperRevokeError(tokenID, expiresAt)]
    /\ UNCHANGED <<now, clients, codes, tokens, pc, treq, authCode, resp, authResp,
                   redisUp, refreshed>>

\* A minute passes
Minute ==
    /\ now < MaxTime
    /\ now' = now + 1
    /\ UNCHANGED <<clients, codes, tokens, pc, treq, authCode, resp, authResp,
                   revoked, redisUp, last, refreshed>>

\* The error OAuth2Service.RevokeToken returns, "" when it returns nil
RevokeError(t) ==
    IF ValidateToken(t) # "" THEN "invalid token"
    ELSE HelperRevokeError(t.jti, t.exp)

\* OAuth2Service.RevokeToken behind POST /oauth/revoke
RevokeToken(t) ==
    /\ revoked' = IF ValidateToken(t) = "" THEN HelperRevoke(t.jti, t.exp)
                  ELSE revoked
    /\ last' = [op |-> "revoke", err |-> RevokeError(t)]
    /\ UNCHANGED <<now, clients, codes, tokens, pc, treq, authCode, resp, authResp,
                   redisUp, refreshed>>

\* &IntrospectResponse{Active: false}: every other field has its zero value
Inactive ==
    [active |-> FALSE, scope |-> <<>>, client_id |-> "", user_id |-> "",
     token_type |-> "", exp |-> 0, iat |-> 0]

\* IntrospectToken reporting the token's subject for every token as the user
IntrospectResponse_Subject(t) ==
    IF ValidateToken(t) # "" THEN Inactive
    ELSE IF IsTokenRevoked(t.jti).revoked THEN Inactive
    ELSE [active |-> TRUE, scope |-> <<>>,
          client_id |-> t.sub, user_id |-> t.sub,
          token_type |-> "Bearer", exp |-> t.exp, iat |-> t.iat]

\* IntrospectToken describing the tokens it reports inactive
IntrospectResponse_Leaky(t) ==
    IF ValidateToken(t) # "" /\ (t.jti <= 0 \/ t.sig # JWTSecret) THEN Inactive
    ELSE [active |-> ValidateToken(t) = "" /\ ~IsTokenRevoked(t.jti).revoked,
          scope |-> Join(t.scopes, <<" ">>),
          client_id |-> t.client_id, user_id |-> t.user_id,
          token_type |-> "Bearer", exp |-> t.exp, iat |-> t.iat]

\* OAuth2Service.IntrospectToken: the response
IntrospectResponse(t) ==
    IF ValidateToken(t) # "" THEN Inactive
    ELSE IF IsTokenRevoked(t.jti).revoked THEN Inactive
    ELSE [active |-> TRUE, scope |-> Join(t.scopes, <<" ">>),
          client_id |-> t.client_id, user_id |-> t.user_id,
          token_type |-> "Bearer", exp |-> t.exp, iat |-> t.iat]

\* OAuth2Service.IntrospectToken behind POST /oauth/introspect
IntrospectToken(t) ==
    /\ last' = [op |-> "introspect", result |-> IntrospectResponse(t)]
    /\ UNCHANGED <<now, clients, codes, tokens, pc, treq, authCode, resp, authResp,
                   revoked, redisUp, refreshed>>

\* RequireAuth without its lookup in the revocation list
RequireAuthError_NoLookup(t) ==
    IF ValidateToken(t) # "" THEN "Invalid or expired token" ELSE ""

\* AuthMiddleware.RequireAuth on a request carrying "Bearer <t>": the message
\* of the 401 response, "" when the request is passed on
RequireAuthError(t) ==
    IF ValidateToken(t) # "" THEN "Invalid or expired token"
    ELSE IF IsTokenRevoked(t.jti).err = "" /\ IsTokenRevoked(t.jti).revoked
         THEN "Token has been revoked"
    ELSE ""

\* A key of the gin context: c.Set(key, v), or the key left unset
Set(v) == [exists |-> TRUE, value |-> v]
Unset == [exists |-> FALSE]

\* The context RequireAuth leaves: nothing is set and the chain aborted on a
\* 401; user_id and role are set only when the claim is not empty
RequireAuthContext(t) ==
    IF RequireAuthError(t) # "" THEN [next |-> FALSE]
    ELSE [next     |-> TRUE,
          user_id  |-> IF t.user_id # "" THEN Set(t.user_id) ELSE Unset,
          client_id |-> Set(t.client_id),
          role     |-> IF t.role # "" THEN Set(t.role) ELSE Unset,
          scopes   |-> Set(t.scopes),
          token_id |-> Set(t.jti)]

RequireAuth(t) ==
    /\ last' = [op |-> "auth", err |-> RequireAuthError(t),
                ctx |-> RequireAuthContext(t)]
    /\ UNCHANGED <<now, clients, codes, tokens, pc, treq, authCode, resp, authResp,
                   revoked, redisUp, refreshed>>

\* Redis stops answering, and answers again
RedisFails ==
    /\ redisUp
    /\ redisUp' = FALSE
    /\ UNCHANGED <<now, clients, codes, tokens, pc, treq, authCode, resp, authResp,
                   revoked, last, refreshed>>

RedisRecovers ==
    /\ ~redisUp
    /\ redisUp' = TRUE
    /\ UNCHANGED <<now, clients, codes, tokens, pc, treq, authCode, resp, authResp,
                   revoked, last, refreshed>>

\* ------------------------------------------------------------ refresh grant
\* RefreshTokenGrant without its comparison of the token's client
RefreshError_NoClientCheck(req) ==
    IF ValidateToken(req.refresh_token) # "" THEN "invalid refresh token"
    ELSE IF IsTokenRevoked(req.refresh_token.jti).revoked
         THEN "refresh token has been revoked"
    ELSE ""

\* The checks of RefreshTokenGrant, in the code's order
RefreshError(req) ==
    IF ValidateToken(req.refresh_token) # "" THEN "invalid refresh token"
    ELSE IF IsTokenRevoked(req.refresh_token.jti).revoked
         THEN "refresh token has been revoked"
    ELSE IF req.refresh_token.client_id # req.client_id THEN "client mismatch"
    ELSE ""

\* RefreshTokenGrant, first round trip: validate the token, look it up in Redis
RefreshCheck(r) ==
    /\ pc[r] = "bound"
    /\ treq[r].grant_type = "refresh_token"
    /\ IF RefreshError(treq[r]) # ""
       THEN Fail(r, RefreshError(treq[r]))
       ELSE /\ pc' = [pc EXCEPT ![r] = "refresh"]
            /\ UNCHANGED <<treq, authCode, resp>>
    /\ UNCHANGED <<now, clients, codes, tokens, authResp>>
    /\ UNCHANGED ledger

\* RefreshTokenGrant revoking the token it has redeemed
RefreshInsert_Rotating(r) ==
    /\ pc[r] = "refresh"
    /\ generateTokens(r, treq[r].refresh_token.user_id, treq[r].client_id,
                      treq[r].refresh_token.scopes, 0)
    /\ refreshed' = Append(refreshed, treq[r].refresh_token.jti)
    /\ revoked' = revoked \cup {RevocationEntry(treq[r].refresh_token.jti,
                                                treq[r].refresh_token.exp)}
    /\ UNCHANGED <<now, clients, codes, authResp, redisUp, last>>

\* second round trip: generateTokens with the claims of the presented token
RefreshInsert(r) ==
    /\ pc[r] = "refresh"
    /\ generateTokens(r, treq[r].refresh_token.user_id, treq[r].client_id,
                      treq[r].refresh_token.scopes, 0)
    /\ refreshed' = Append(refreshed, treq[r].refresh_token.jti)
    /\ UNCHANGED <<now, clients, codes, authResp, revoked, redisUp, last>>

\* OAuth2Service.RefreshTokenGrant
RefreshTokenGrant(r) == RefreshCheck(r) \/ RefreshInsert(r)

\* ---------------------------------------------------------- token lifetimes
TokenDeadlines ==
    {tokens[i].access_token.exp : i \in 1..Len(tokens)}
    \cup {tokens[i].refresh_token.exp :
            i \in {j \in 1..Len(tokens) : tokens[j].refresh_token.jti > 0}}

\* Time passes to the expiry instant of an issued token; the clock makes such
\* a jump only from within the first MaxTime minutes
TokenTick ==
    /\ now <= MaxTime
    /\ \E d \in TokenDeadlines :
          /\ d > now
          /\ now' = d
    /\ UNCHANGED <<clients, codes, tokens, pc, treq, authCode, resp, authResp>>
    /\ UNCHANGED ledger

\* --------------------------------------------------------------- the system
\* What the administrator registered: cA is confidential, cB is public
RegisteredRedirects(cid) == IF cid = "cA" THEN <<GoodURI, OtherURI>> ELSE <<GoodURI>>

AllGrants == <<<<"authorization_code">>, <<"refresh_token">>, <<"client_credentials">>>>
CodeGrants == <<<<"authorization_code">>, <<"refresh_token">>>>

Init ==
    /\ now = 0
    /\ \E g \in {AllGrants, CodeGrants} :
         clients = [c \in ClientIDs |->
           IF c = "cA"
           THEN ClientRow("sA", RegisteredRedirects(c), ScopeRW, g, FALSE)
           ELSE ClientRow("sB", RegisteredRedirects(c), ScopeR,
                          <<<<"authorization_code">>, <<"client_credentials">>>>, TRUE)]
    /\ codes = <<>>
    /\ tokens = <<>>
    /\ pc = [r \in Reqs |-> "idle"]
    /\ treq = [r \in Reqs |-> NoReq]
    /\ authCode = [r \in Reqs |-> 0]
    /\ resp = [r \in Reqs |-> NoResp]
    /\ authResp = [err |-> "none", code |-> 0]
    /\ revoked = {}
    /\ redisUp = TRUE
    /\ last = NoOp
    /\ refreshed = <<>>

\* Requests: the bodies POST /oauth/authorize and POST /oauth/token may carry
AuthorizeRequests(C, U, P) ==
    {[client_id |-> c, redirect_uri |-> u, scope |-> ScopeRW,
      code_challenge |-> p[1], code_challenge_method |-> p[2]] :
        c \in C, u \in U, p \in P}

ExchangeRequests(C, U, S, V) ==
    {[grant_type |-> "authorization_code", client_secret |-> s, client_id |-> c,
      redirect_uri |-> u, code |-> k, scope |-> <<>>, code_verifier |-> v] :
        k \in 1..MaxCodes, u \in U, c \in C, s \in S, v \in V}

ClientCredentialsRequests(C, S) ==
    {[grant_type |-> "client_credentials", client_secret |-> s, client_id |-> c,
      redirect_uri |-> <<>>, code |-> 0, scope |-> sc, code_verifier |-> ""] :
        c \in C, s \in S, sc \in {<<>>, ScopeR}}

\* The steps of the system over the requests A and T, the users U and the
\* handler slots R
Authorize(A, U) ==
    \E u \in U, req \in A : CreateAuthorizationCode(u, req)

Receive(T, R) ==
    \E r \in R, req \in T : TokenReceive(r, req)

Exchange(R) ==
    \/ \E r \in R : ExchSelect(r)
    \/ \E r \in R : ExchUpdate(r)
    \/ \E r \in R : ExchGetClient(r)
    \/ \E r \in R : ExchInsert(r)

Admin ==
    \/ \E c \in ClientIDs, b \in BOOLEAN : UpdateStatus(c, b)
    \/ \E c \in ClientIDs : DeleteClient(c)

AdminOf(C) ==
    \/ \E c \in C, b \in BOOLEAN : UpdateStatus(c, b)
    \/ \E c \in C : DeleteClient(c)

\* (challenge, method) pairs an authorize request may carry
NoPKCE == <<"", "">>
PKCEPairs == {NoPKCE, <<"h1", "S256">>, <<"v1", "S256">>, <<"v1", "plain">>,
              <<"h1", "plain">>, <<"v1", "">>}

\* One request at a time
Sequential == {1}

\* Every client and secret, both grants, one request at a time
Next ==
    \/ Authorize(AuthorizeRequests(ClientIDs, {GoodURI}, {NoPKCE}), {"u1"})
    \/ Receive(ExchangeRequests(ClientIDs, {GoodURI}, Secrets, {""})
               \cup ClientCredentialsRequests(ClientIDs \cup {UnknownClient}, Secrets),
               Sequential)
    \/ Exchange(Sequential)
    \/ \E r \in Sequential : ClientCredentialsGrant(r)

Spec == Init /\ [][Next]_vars

\* Every client, user and redirect URI, the secret right, one request at a time
NextBinding ==
    \/ Authorize(AuthorizeRequests(ClientIDs, {GoodURI, PrefixURI}, {NoPKCE}), UserIDs)
    \/ Receive(ExchangeRequests(ClientIDs, {GoodURI, PrefixURI}, {"sA"}, {""}),
               Sequential)
    \/ Exchange(Sequential)

SpecBinding == Init /\ [][NextBinding]_vars

\* The administrator deactivates and deletes clients between the requests
NextAdmin ==
    \/ Authorize(AuthorizeRequests(ClientIDs, {GoodURI}, {NoPKCE}), {"u1"})
    \/ Receive(ExchangeRequests(ClientIDs, {GoodURI}, {"sA"}, {""})
               \cup ClientCredentialsRequests(ClientIDs, {"sA", "sB"}),
               Sequential)
    \/ Exchange(Sequential)
    \/ \E r \in Sequential : ClientCredentialsGrant(r)
    \/ Admin

SpecAdmin == Init /\ [][NextAdmin]_vars

\* One client, every parameter right, one request at a time, time passing
NextExpiry ==
    \/ Authorize(AuthorizeRequests({"cA"}, {GoodURI}, {NoPKCE}), {"u1"})
    \/ Receive(ExchangeRequests({"cA"}, {GoodURI}, {"sA"}, {""}), Sequential)
    \/ Exchange(Sequential)
    \/ Tick

SpecExpiry == Init /\ [][NextExpiry]_vars

\* Concurrent redemptions of codes issued to one client, every parameter right
NextRace ==
    \/ Authorize(AuthorizeRequests({"cA"}, {GoodURI}, {NoPKCE}), {"u1"})
    \/ Receive(ExchangeRequests({"cA"}, {GoodURI}, {"sA"}, {""}), Reqs)
    \/ Exchange(Reqs)
    \/ Tick

SpecRace == Init /\ [][NextRace]_vars

\* One client and one redirect URI, every challenge, method and verifier
NextPKCE ==
    \/ Authorize(AuthorizeRequests({"cA"}, {GoodURI}, PKCEPairs), {"u1"})
    \/ Receive(ExchangeRequests({"cA"}, {GoodURI}, {"sA"}, Verifiers), Sequential)
    \/ Exchange(Sequential)

SpecPKCE == Init /\ [][NextPKCE]_vars

\* Authorization requests for every client and redirect URI
NextURI ==
    \/ Authorize(AuthorizeRequests(ClientIDs \cup {UnknownClient}, URIs, {NoPKCE}),
                 UserIDs)
    \/ Admin

SpecURI == Init /\ [][NextURI]_vars

\* ------------------------------------------------- tokens, refresh, revocation
\* The tokens the server has issued, as their holders present them
IssuedAccess == {tokens[i].access_token : i \in 1..Len(tokens)}
IssuedRefresh ==
    {tokens[i].refresh_token :
       i \in {j \in 1..Len(tokens) : tokens[j].refresh_token.jti > 0}}

\* t with its claims kept and its signature made under another key
Forged(t) == [t EXCEPT !.sig = "other"]

\* What a caller may send as a token: issued, forged, or no JWT at all
Presented(T) == T \cup {Forged(t) : t \in T} \cup {Malformed}

AuthorizeScopes(C, Sc) ==
    {[client_id |-> c, redirect_uri |-> GoodURI, scope |-> sc,
      code_challenge |-> "", code_challenge_method |-> ""] : c \in C, sc \in Sc}

RefreshRequests(C, T) ==
    {[grant_type |-> "refresh_token", client_secret |-> "", client_id |-> c,
      redirect_uri |-> <<>>, code |-> 0, scope |-> <<>>, code_verifier |-> "",
      refresh_token |-> t] : c \in C, t \in T}

ScopedCredentialsRequests(C, S, Sc) ==
    {[grant_type |-> "client_credentials", client_secret |-> s, client_id |-> c,
      redirect_uri |-> <<>>, code |-> 0, scope |-> sc, code_verifier |-> ""] :
        c \in C, s \in S, sc \in Sc}

Refresh(R) ==
    \/ \E r \in R : RefreshCheck(r)
    \/ \E r \in R : RefreshInsert(r)

Revoke(T) == \E t \in T : RevokeToken(t)

Introspect(T) == \E t \in T : IntrospectToken(t)

Middleware(T) == \E t \in T : RequireAuth(t)

Redis == RedisFails \/ RedisRecovers

\* Codes are exchanged, the access tokens revoked and introspected while time
\* passes and Redis fails and recovers
NextLedger ==
    \/ Authorize(AuthorizeRequests({"cA"}, {GoodURI}, {NoPKCE}), {"u1"})
    \/ Receive(ExchangeRequests({"cA"}, {GoodURI}, {"sA"}, {""}), Sequential)
    \/ Exchange(Sequential)
    \/ Revoke(IssuedAccess)
    \/ Introspect(IssuedAccess)
    \/ Redis
    \/ TokenTick

SpecLedger == Init /\ [][NextLedger]_vars

\* The same with forged tokens and strings that are no tokens among the inputs
NextPresented ==
    \/ Authorize(AuthorizeRequests({"cA"}, {GoodURI}, {NoPKCE}), {"u1"})
    \/ Receive(ExchangeRequests({"cA"}, {GoodURI}, {"sA"}, {""}), Sequential)
    \/ Exchange(Sequential)
    \/ Revoke(Presented(IssuedAccess))
    \/ Introspect(Presented(IssuedAccess))
    \/ Redis
    \/ TokenTick

SpecPresented == Init /\ [][NextPresented]_vars

\* Codes of both clients and users, with two scopes and without any, are
\* exchanged and the access tokens introspected and revoked
NextIntrospect ==
    \/ Authorize(AuthorizeScopes({"cA"}, {<<>>}) \cup AuthorizeScopes({"cB"}, {ScopeRW}),
                 UserIDs)
    \/ Receive(ExchangeRequests(ClientIDs, {GoodURI}, {"sA"}, {""}), Sequential)
    \/ Exchange(Sequential)
    \/ Revoke(IssuedAccess)
    \/ Introspect(IssuedAccess)

SpecIntrospect == Init /\ [][NextIntrospect]_vars

\* Refresh tokens are redeemed, for the right client and the wrong one, and
\* revoked, while time passes and Redis fails
NextRefresh ==
    \/ Authorize(AuthorizeRequests({"cA"}, {GoodURI}, {NoPKCE}), {"u1"})
    \/ Receive(ExchangeRequests({"cA"}, {GoodURI}, {"sA"}, {""})
               \cup RefreshRequests(ClientIDs, Presented(IssuedRefresh)),
               Sequential)
    \/ Exchange(Sequential)
    \/ Refresh(Sequential)
    \/ Revoke(IssuedRefresh)
    \/ RedisFails
    \/ TokenTick

SpecRefresh == Init /\ [][NextRefresh]_vars

\* The three grants, the client credentials asking for every scope
NextGrants ==
    \/ Authorize(AuthorizeRequests({"cA"}, {GoodURI}, {NoPKCE}), {"u1"})
    \/ Receive(ExchangeRequests({"cA"}, {GoodURI}, {"sA"}, {""})
               \cup RefreshRequests({"cA"}, IssuedRefresh)
               \cup ScopedCredentialsRequests(ClientIDs, {"sA", "sB"},
                                              {<<>>, ScopeR, ScopeRW, <<"admin">>}),
               Sequential)
    \/ Exchange(Sequential)
    \/ Refresh(Sequential)
    \/ \E r \in Sequential : ClientCredentialsGrant(r)

SpecGrants == Init /\ [][NextGrants]_vars

\* Authorization requests of a known and an unknown client, with and without
\* a challenge, while the administrator deactivates and deletes the client,
\* another client obtains tokens and tokens are revoked
NextAuthorize ==
    \/ Authorize(AuthorizeRequests({"cA", UnknownClient}, {GoodURI},
                                   {NoPKCE, <<"h1", "S256">>}), UserIDs)
    \/ Receive(ScopedCredentialsRequests({"cB"}, {"sB"}, {<<>>}), Sequential)
    \/ \E r \in Sequential : ClientCredentialsGrant(r)
    \/ Revoke(IssuedAccess)
    \/ AdminOf({"cA"})

SpecAuthorize == Init /\ [][NextAuthorize]_vars

\* Signing methods a presented token may declare in its header
Algorithms == HMACMethods \cup {"RS256", "none"}

\* The tokens of T with their header redeclared and signed again with the same
\* secret
Redeclared(T) == {[t EXCEPT !.alg = a] : t \in T, a \in Algorithms}

\* Client tokens are issued minute after minute and presented to the
\* middleware as issued, under another declared algorithm, or forged, until
\* they expire
NextCodec ==
    \/ Receive(ScopedCredentialsRequests({"cB"}, {"sB"}, {<<>>}), Sequential)
    \/ \E r \in Sequential : ClientCredentialsGrant(r)
    \/ Middleware(Redeclared(Presented(IssuedAccess) \ {Malformed}) \cup {Malformed})
    \/ Minute
    \/ TokenTick

SpecCodec == Init /\ [][NextCodec]_vars

\* Token requests naming a grant type the endpoint does not offer
OtherGrantRequests ==
    {[grant_type |-> g, client_secret |-> "sA", client_id |-> "cA",
      redirect_uri |-> GoodURI, code |-> k, scope |-> <<>>,
      code_verifier |-> ""] : g \in {"password", "implicit"}, k \in 0..MaxCodes}

\* Codes are issued and exchanged while requests with other grant types
\* arrive
NextDispatch ==
    \/ Authorize(AuthorizeRequests({"cA"}, {GoodURI}, {NoPKCE}), UserIDs)
    \/ Receive(ExchangeRequests({"cA"}, {GoodURI}, {"sA"}, {""}), Sequential)
    \/ Exchange(Sequential)
    \/ \E r \in Sequential, req \in OtherGrantRequests : TokenRefuse(r, req)
    \/ Revoke(IssuedAccess)

SpecDispatch == Init /\ [][NextDispatch]_vars

\* Pairs are issued for codes and for refresh tokens while access and refresh
\* tokens are revoked
NextPair ==
    \/ Authorize(AuthorizeRequests({"cA"}, {GoodURI}, {NoPKCE}), {"u1"})
    \/ Receive(ExchangeRequests({"cA"}, {GoodURI}, {"sA"}, {""})
               \cup RefreshRequests({"cA"}, IssuedRefresh),
               Sequential)
    \/ Exchange(Sequential)
    \/ Refresh(Sequential)
    \/ Revoke(IssuedAccess \cup IssuedRefresh)

SpecPair == Init /\ [][NextPair]_vars

\* The access token UserService.AuthenticateUser issued at time 0 to the
\* administrator u1: client "web", the user's role, scopes read and write
LoginAccess ==
    [sub |-> "u1", jti |-> 2 * MaxTokens + 1, scopes |-> Split(ScopeRW, " "),
     client_id |-> "web", user_id |-> "u1", role |-> "admin",
     exp |-> AccessTokenExpiry, iat |-> 0, alg |-> "HS256", sig |-> JWTSecret]

\* The access tokens of the token endpoint and of the login
Bearers == IssuedAccess \cup {LoginAccess}

\* Client tokens are issued; they and the token of the login are revoked and
\* presented to the middleware, as issued, forged or as no token at all, while
\* Redis fails and recovers and the tokens expire
NextGate ==
    \/ Receive(ScopedCredentialsRequests({"cB"}, {"sB"}, {<<>>}), Sequential)
    \/ \E r \in Sequential : ClientCredentialsGrant(r)
    \/ Revoke(Bearers)
    \/ Middleware(Presented(Bearers))
    \/ Redis
    \/ TokenTick

SpecGate == Init /\ [][NextGate]_vars

\* Access tokens of the code exchange, of the client_credentials grant and of
\* the login are sent in the refresh_token field, as the refresh tokens are
NextKinds ==
    \/ Authorize(AuthorizeRequests({"cA"}, {GoodURI}, {NoPKCE}), {"u1"})
    \/ Receive(ExchangeRequests({"cA"}, {GoodURI}, {"sA"}, {""})
               \cup ScopedCredentialsRequests({"cB"}, {"sB"}, {<<>>})
               \cup RefreshRequests(ClientIDs \cup {"web"},
                                    Bearers \cup IssuedRefresh),
               Sequential)
    \/ Exchange(Sequential)
    \/ \E r \in Sequential : ClientCredentialsGrant(r)
    \/ Refresh(Sequential)

SpecKinds == Init /\ [][NextKinds]_vars

\* The revocation list by itself: entries are written for two token
\* identifiers with every deadline, while the minutes pass and Redis fails and
\* recovers
TokenIDs == {1, 2}

NextHelper ==
    \/ \E id \in TokenIDs, x \in 0..(MaxTime + 1) : LedgerRevoke(id, x)
    \/ Redis
    \/ Minute

SpecHelper == Init /\ [][NextHelper]_vars

\* Redis fails while tokens are introspected, redeemed and presented to the
\* middleware;
\* neither IntrospectToken nor RequireAuth tells a refresh token from an access
\* token, and the refresh tokens are the tokens all three are given here
NextOutage ==
    \/ Authorize(AuthorizeRequests({"cA"}, {GoodURI}, {NoPKCE}), {"u1"})
    \/ Receive(ExchangeRequests({"cA"}, {GoodURI}, {"sA"}, {""})
               \cup RefreshRequests({"cA"}, IssuedRefresh),
               Sequential)
    \/ Exchange(Sequential)
    \/ Refresh(Sequential)
    \/ Revoke(IssuedRefresh)
    \/ Introspect(IssuedRefresh)
    \/ Middleware(IssuedRefresh)
    \/ RedisFails

SpecOutage == Init /\ [][NextOutage]_vars

\* ===================================================================== claims
\* Slot r's request is an authorization_code exchange making its first round trip
Selects(r) ==
    /\ pc[r] = "bound"
    /\ treq[r].grant_type = "authorization_code"
    /\ pc'[r] # "bound"

\* Slot r's request ends in this step with a new oauth_tokens row
Issues(r) ==
    /\ pc[r] # "idle"
    /\ pc'[r] = "idle"
    /\ Len(tokens') > Len(tokens)

\* The rows of oauth_authorization_codes carrying a code value, used or not
RowsOf(code) == {i \in 1..Len(codes) : codes[i].code = code}

\* The oauth_tokens rows issued for the code of row k
IssuedFor(k) == {i \in 1..Len(tokens) : tokens[i].from_code = k}

\* The error an exchange answers a code value that was never issued
CodeInvalid == "invalid authorization code"

\* C1: however the round trips of concurrent exchanges of one code interleave,
\* at most one token pair is ever issued for the code.
C1_AtMostOnePairPerCode ==
    \A k \in 1..Len(codes) : Cardinality(IssuedFor(k)) <= 1

\* C2: an exchange of a fresh code with every parameter right passes, and a
\* later exchange of the same, now used, code ends without a token and with an
\* error of its own, not the error of an unknown code.
C2_SecondUseIsAlreadyUsed ==
    [][\A r \in Reqs : Selects(r) =>
         \A i \in RowsOf(treq[r].code) : ~IsExpired(codes[i]) =>
            IF codes[i].is_used
            THEN /\ pc'[r] = "idle"
                 /\ resp'[r].err \notin {"", CodeInvalid}
                 /\ tokens' = tokens
            ELSE pc'[r] = "update"]_vars

\* C3: a code's used flag never falls back to false, is written at most once
\* (only while it is false), no other field of a stored code ever changes, and
\* an exchange accepts only a code that is unused and unexpired.
C3_CodeLifecycle ==
    [][/\ \A k \in 1..Len(codes) :
            /\ codes[k].is_used => codes'[k].is_used
            /\ [codes'[k] EXCEPT !.is_used = FALSE] = [codes[k] EXCEPT !.is_used = FALSE]
       /\ \A r \in Reqs :
            (pc[r] = "update" /\ pc'[r] = "getclient") => ~codes[authCode[r]].is_used
       /\ \A r \in Reqs :
            (pc[r] = "bound" /\ pc'[r] = "update") =>
               /\ ~codes[authCode'[r]].is_used
               /\ ~IsExpired(codes[authCode'[r]])]_vars

\* C4: every stored code's redirect URI is exactly one of the redirect URIs
\* registered for its client.
C4_ExactRedirectMatch ==
    \A k \in 1..Len(codes) :
       \E j \in 1..Len(RegisteredRedirects(codes[k].client_id)) :
          RegisteredRedirects(codes[k].client_id)[j] = codes[k].redirect_uri

\* C5: an exchange of an expired code, used or not, is answered "authorization
\* code expired" and issues no token.
C5_ExpiredIsReportedExpired ==
    [][\A r \in Reqs : Selects(r) =>
         \A i \in RowsOf(treq[r].code) : IsExpired(codes[i]) =>
            /\ pc'[r] = "idle"
            /\ resp'[r].err = "authorization code expired"
            /\ tokens' = tokens]_vars

\* The exchange of code row ac by request req gets as far as the PKCE check
ReachesPKCE(ac, req) ==
    /\ ~IsExpired(ac)
    /\ ac.client_id = req.client_id
    /\ ac.redirect_uri = req.redirect_uri
    /\ ac.code_challenge.Valid
    /\ ac.code_challenge_method.String \in {"S256", "plain"}

\* What PKCE asks of the verifier: its digest (S256) or itself (plain) is the challenge
PKCEMatches(ac, verifier) ==
    IF ac.code_challenge_method.String = "S256"
    THEN Sha256B64(verifier) = ac.code_challenge.String
    ELSE verifier = ac.code_challenge.String

\* C6: for a code bound to a challenge with method S256 or plain, the exchange
\* passes the PKCE check exactly when the verifier matches; every other
\* verifier is answered "invalid code verifier", the request ends and no token
\* is issued; no request is ever past the check with a verifier that does not match.
C6_PKCEVerification ==
    /\ [][\A r \in Reqs : Selects(r) =>
            \A i \in SelectCode(treq[r].code) : ReachesPKCE(codes[i], treq[r]) =>
               IF PKCEMatches(codes[i], treq[r].code_verifier)
               THEN pc'[r] = "update" /\ authCode'[r] = i
               ELSE /\ pc'[r] = "idle"
                    /\ resp'[r].err = "invalid code verifier"
                    /\ tokens' = tokens]_vars
    /\ [](\A r \in Reqs :
            (pc[r] \in {"update", "getclient", "insert"}
               /\ ReachesPKCE(codes[authCode[r]], treq[r]))
            => PKCEMatches(codes[authCode[r]], treq[r].code_verifier))

\* A request passed the S256 check and is about to be issued its tokens, and
\* another code bound to a plain challenge has been redeemed
C6_Witness ==
    \E r \in Reqs :
       /\ pc[r] = "insert"
       /\ codes[authCode[r]].code_challenge.Valid
       /\ codes[authCode[r]].code_challenge_method.String = "S256"
       /\ \E i \in 1..Len(tokens) :
             /\ tokens[i].from_code > 0
             /\ codes[tokens[i].from_code].code_challenge_method.String = "plain"

\* C7: an exchange is rejected when the code has a challenge and the request
\* no verifier, and when the request has a verifier and the code no challenge.
C7_PKCEPresenceAgrees ==
    [][\A r \in Reqs : Selects(r) =>
         \A i \in SelectCode(treq[r].code) :
            (codes[i].code_challenge.Valid # (treq[r].code_verifier # "")) =>
               /\ pc'[r] = "idle"
               /\ resp'[r].err \notin {"", "none"}]_vars

\* C8: a request is past the checks of the exchange only with the client and
\* the redirect URI of the code, and every token pair issued for a code
\* carries the code's client and user, in the row and in both tokens.
C8_CodeBoundToClient ==
    /\ \A r \in Reqs : pc[r] \in {"update", "getclient", "insert"} =>
          /\ treq[r].client_id = codes[authCode[r]].client_id
          /\ treq[r].redirect_uri = codes[authCode[r]].redirect_uri
    /\ \A i \in 1..Len(tokens) : tokens[i].from_code > 0 =>
          LET c == codes[tokens[i].from_code]
          IN  /\ tokens[i].client_id = c.client_id
              /\ tokens[i].user_id = c.user_id
              /\ tokens[i].access_token.client_id = c.client_id
              /\ tokens[i].access_token.user_id = c.user_id
              /\ tokens[i].refresh_token.client_id = c.client_id
              /\ tokens[i].refresh_token.user_id = c.user_id

\* Codes of both clients and both users exist and a pair was issued for the
\* code user u2 granted client cB
C8_Witness ==
    /\ \E k \in 1..Len(codes) : codes[k].client_id = "cA" /\ codes[k].user_id = "u1"
    /\ \E i \in 1..Len(tokens) :
          /\ tokens[i].from_code > 0
          /\ tokens[i].client_id = "cB"
          /\ tokens[i].user_id = "u2"

\* C9: for a confidential client the exchange goes on to issue tokens only with
\* the registered secret, both grants answer any other secret "invalid client
\* secret" and store no token row, and no request of a confidential client
\* ends with a new token row unless it carried the registered secret.
C9_SecretRequired ==
    [][\A r \in Reqs :
         LET cid == treq[r].client_id
         IN  /\ (/\ pc[r] = "getclient"
                 /\ pc'[r] # "getclient"
                 /\ ClientFound(cid)
                 /\ ~clients[cid].is_public) =>
                    IF treq[r].client_secret = clients[cid].client_secret
                    THEN pc'[r] = "insert"
                    ELSE /\ pc'[r] = "idle"
                         /\ resp'[r].err = "invalid client secret"
                         /\ tokens' = tokens
             /\ (/\ pc[r] = "bound"
                 /\ pc'[r] # "bound"
                 /\ treq[r].grant_type = "client_credentials"
                 /\ ClientFound(cid)
                 /\ clients[cid].is_active
                 /\ ~clients[cid].is_public
                 /\ treq[r].client_secret # clients[cid].client_secret) =>
                    /\ resp'[r].err = "invalid client secret"
                    /\ tokens' = tokens
             /\ (Issues(r) /\ ~clients[cid].is_public) =>
                    treq[r].client_secret = clients[cid].client_secret]_vars

\* The confidential client holds tokens of both grants and its latest request
\* was answered "invalid client secret"
C9_Witness ==
    /\ \E i \in 1..Len(tokens) : tokens[i].client_id = "cA" /\ tokens[i].from_code > 0
    /\ \E i \in 1..Len(tokens) : tokens[i].client_id = "cA" /\ tokens[i].from_code = 0
    /\ resp[1].err = "invalid client secret"

\* The grant type g is in the client's allowed set
GrantAllowed(cid, g) == Contains(clients[cid].grant_types, <<g>>)

\* C10: the exchange goes on to issue tokens only for an active client allowed
\* the authorization_code grant, and no request ends with a new token row
\* unless its client exists, is not soft-deleted, is active and is allowed the
\* request's grant type.
C10_OnlyActiveAllowedClients ==
    [][\A r \in Reqs :
         LET cid == treq[r].client_id
         IN  /\ (pc[r] = "getclient" /\ pc'[r] = "insert") =>
                    /\ clients[cid].is_active
                    /\ GrantAllowed(cid, "authorization_code")
             /\ Issues(r) =>
                    /\ ClientFound(cid)
                    /\ clients[cid].is_active
                    /\ GrantAllowed(cid, treq[r].grant_type)]_vars

C12_RevokeAlwaysSucceeds ==
    [][\A t \in Presented(IssuedAccess) :
         (RevokeToken(t) /\ redisUp)
           => /\ last'.err = ""
              /\ ValidateToken(t) = ""
                   => \E e \in revoked' : e.jti = t.jti /\ e.exp = t.exp
              /\ ValidateToken(t) # "" => revoked' = revoked]_vars

\* C13: the pair the refresh_token grant issues has the scopes that were
\* granted with the presented refresh token: the new row and the response
\* carry the scopes of the row the refresh token was issued in.
C13_RefreshKeepsScopes ==
    [][\A r \in Reqs :
         RefreshInsert(r)
           => \A k \in 1..Len(tokens) :
                tokens[k].refresh_token.jti = treq[r].refresh_token.jti
                  => /\ tokens'[Len(tokens')].scopes = tokens[k].scopes
                     /\ tokens'[Len(tokens')].access_token.scopes
                          = tokens[k].access_token.scopes
                     /\ resp'[r].scope = tokens[k].scopes]_vars

\* The presented refresh token is no JWT or is signed under another key
BadSignature(t) == t.jti <= 0 \/ t.sig # JWTSecret

C15_RefreshTokenPresence ==
    [][\A r \in Reqs :
         /\ (ClientCredentialsGrant(r) /\ resp'[r].err = "")
              => /\ resp'[r].access_token.jti > 0
                 /\ resp'[r].refresh_token = NoToken
                 /\ tokens'[Len(tokens')].refresh_token = NoToken
         /\ (ExchInsert(r) \/ RefreshInsert(r))
              => /\ resp'[r].err = ""
                 /\ resp'[r].access_token.jti > 0
                 /\ resp'[r].refresh_token.jti > 0
                 /\ tokens'[Len(tokens')].refresh_token = resp'[r].refresh_token]_vars

\* A pair from a code exchange is followed by a client_credentials token
C15_Witness ==
    /\ Len(tokens) = 2
    /\ tokens[1].from_code > 0
    /\ tokens[1].refresh_token.jti > 0
    /\ tokens[2].user_id = ""
    /\ resp[1].err = ""
    /\ resp[1].access_token = tokens[2].access_token
    /\ resp[1].refresh_token = NoToken

\* The scope names of a blank-separated scope string
ScopeSet(scope) == {Split(scope, " ")[i] : i \in 1..Len(Split(scope, " "))}

\* C16: the scope of every token the client_credentials grant has issued is a
\* subset of the registered scopes of its client.
C16_ClientScopeWithinRegistered ==
    \A i \in 1..Len(tokens) :
      tokens[i].refresh_token = NoToken
        => ScopeSet(tokens[i].scopes) \subseteq ScopeSet(clients[tokens[i].client_id].scopes)

C18_IntrospectReportsGrant ==
    [][\A i \in 1..Len(tokens) :
         (/\ IntrospectToken(tokens[i].access_token)
          /\ tokens[i].from_code > 0
          /\ now < tokens[i].access_token.exp
          /\ ~\E e \in revoked : e.jti = tokens[i].access_token.jti)
           => /\ last'.result.active
              /\ last'.result.scope = codes[tokens[i].from_code].scopes
              /\ last'.result.client_id = codes[tokens[i].from_code].client_id
              /\ last'.result.user_id = codes[tokens[i].from_code].user_id]_vars

\* The token of user u2 and client cB, scope "read write", is reported active
\* beside a token of another user and client
C18_Witness ==
    /\ last.op = "introspect"
    /\ last.result.active
    /\ last.result.scope = ScopeRW
    /\ last.result.client_id = "cB"
    /\ last.result.user_id = "u2"
    /\ \E i \in 1..Len(tokens) :
         tokens[i].client_id = "cA" /\ tokens[i].user_id = "u1"

\* The refresh token with identifier jti has been redeemed
Redeemed(jti) == \E k \in 1..Len(refreshed) : refreshed[k] = jti

\* C19: the refresh_token grant writes nothing to the revocation list, and a
\* refresh token that has been redeemed passes the grant's checks again as
\* long as it is unexpired, has no entry in the list and is presented by its
\* client.
C19_RefreshTokenReusable ==
    [][\A r \in Reqs :
         /\ (RefreshCheck(r) \/ RefreshInsert(r)) => revoked' = revoked
         /\ (/\ RefreshCheck(r)
             /\ Redeemed(treq[r].refresh_token.jti)
             /\ ~BadSignature(treq[r].refresh_token)
             /\ now < treq[r].refresh_token.exp
             /\ ~\E e \in revoked : e.jti = treq[r].refresh_token.jti
             /\ treq[r].refresh_token.client_id = treq[r].client_id)
              => /\ pc'[r] = "refresh"
                 /\ resp'[r] = NoResp]_vars

\* A refresh token that has been redeemed has passed the checks once more
C19_Witness ==
    /\ pc[1] = "refresh"
    /\ Redeemed(treq[1].refresh_token.jti)
    /\ revoked = {}

\* C20: while the lookup in the revocation list fails, a token ValidateToken
\* accepts is treated as not revoked: IntrospectToken reports it active, the
\* middleware passes the request on, and the refresh_token grant goes on to
\* issue tokens to the token's client.
C20_LookupFailsOpen ==
    [][/\ \A t \in IssuedRefresh :
            /\ (IntrospectToken(t) /\ ~redisUp /\ ValidateToken(t) = "")
                 => last'.result.active
            /\ (RequireAuth(t) /\ ~redisUp /\ ValidateToken(t) = "")
                 => last'.err = ""
       /\ \A r \in Reqs :
            (/\ RefreshCheck(r)
             /\ ~redisUp
             /\ ValidateToken(treq[r].refresh_token) = ""
             /\ treq[r].refresh_token.client_id = treq[r].client_id)
              => pc'[r] = "refresh"]_vars

\* Redis is failing, every issued refresh token had been revoked before, and
\* the last answer, an introspection, is active:true
C20_Witness ==
    /\ ~redisUp
    /\ IssuedRefresh # {}
    /\ \A t \in IssuedRefresh : \E e \in revoked : e.jti = t.jti
    /\ last.op = "introspect"
    /\ last.result.active

\* C21: RedisHelper.RevokeToken is idempotent and its entry never outlives the
\* deadline it is given: a call with a deadline at or before now writes nothing
\* and returns nil; a call Redis answers leaves exactly one entry for the
\* identifier, with that deadline, and IsTokenRevoked true; the same call on
\* that state changes nothing.
C21_LedgerRevokeIdempotent ==
    [][\A id \in TokenIDs, x \in 0..(MaxTime + 1) :
         LedgerRevoke(id, x)
           => /\ x <= now => revoked' = revoked /\ last'.err = ""
              /\ (x > now /\ redisUp)
                   => /\ last'.err = ""
                      /\ {e \in revoked' : e.jti = id} = {[jti |-> id, exp |-> x]}
                      /\ IsTokenRevoked(id)'.revoked
                      /\ {e \in revoked' : e.jti # id} = {e \in revoked : e.jti # id}
              /\ (x > now /\ redisUp /\ [jti |-> id, exp |-> x] \in revoked)
                   => revoked' = revoked]_vars

\* The last call returned nil, the entry of identifier 1 is held and the entry
\* of identifier 2 has lapsed
C21_Witness ==
    /\ last.op = "ledger"
    /\ last.err = ""
    /\ \E e \in RevokedKeys : e.jti = 1
    /\ \E e \in revoked : e.jti = 2 /\ e.exp <= now

\* C22: CreateAuthorizationCode inserts a row only for a client that exists, is
\* not soft-deleted and is active; the row expires CodeTTL minutes after now,
\* is unused and carries the calling user and the request's client, redirect
\* URI, scope and challenge (none when the request has none); when it returns
\* an error no row is inserted; it never changes the rows already stored,
\* oauth_tokens or the revocation list.
C22_AuthorizeFrame ==
    [][\A u \in UserIDs :
       \A req \in AuthorizeRequests({"cA", UnknownClient}, {GoodURI},
                                    {NoPKCE, <<"h1", "S256">>}) :
         CreateAuthorizationCode(u, req)
           => /\ tokens' = tokens
              /\ revoked' = revoked
              /\ SubSeq(codes', 1, Len(codes)) = codes
              /\ (authResp'.err # "") = (codes' = codes)
              /\ (\/ req.client_id \notin DOMAIN clients
                  \/ clients[req.client_id].deleted
                  \/ ~clients[req.client_id].is_active) => codes' = codes
              /\ codes' # codes
                   => /\ Len(codes') = Len(codes) + 1
                      /\ authResp'.code = codes'[Len(codes')].code
                      /\ codes'[Len(codes')].expires_at = now + 10
                      /\ ~codes'[Len(codes')].is_used
                      /\ codes'[Len(codes')].user_id = u
                      /\ codes'[Len(codes')].client_id = req.client_id
                      /\ codes'[Len(codes')].redirect_uri = req.redirect_uri
                      /\ codes'[Len(codes')].scopes = req.scope
                      /\ codes'[Len(codes')].code_challenge.Valid
                           = (req.code_challenge # "")
                      /\ codes'[Len(codes')].code_challenge.String
                           = req.code_challenge]_vars

\* With a token stored and revoked, a code with a challenge has been created
\* for user u2
C22_Witness ==
    /\ tokens # <<>>
    /\ revoked # {}
    /\ Len(codes) = 1
    /\ authResp.err = ""
    /\ codes[1].user_id = "u2"
    /\ codes[1].code_challenge.Valid
    /\ clients["cA"].is_active

\* C23: a public client is never refused for its secret: with the client
\* existing, active and allowed the grant, a client_credentials request and
\* the secret check of a code exchange succeed with an empty client_secret.
C23_PublicClientNeedsNoSecret ==
    [][\A r \in Reqs :
         LET cid == treq[r].client_id
         IN  (/\ ClientCredentialsGrant(r) \/ ExchGetClient(r)
              /\ ClientFound(cid)
              /\ clients[cid].is_public
              /\ clients[cid].is_active
              /\ GrantAllowed(cid, treq[r].grant_type)
              /\ treq[r].client_secret = "")
               => resp'[r].err # "invalid client secret"]_vars

\* C24: the token endpoint answers a known client presenting a wrong secret
\* exactly as it answers the same request naming a client that does not
\* exist, in the client_credentials grant and in the secret check of the
\* code exchange.
C24_NoClientEnumeration ==
    [][\A r \in Reqs :
         LET req     == treq[r]
             unknown == [req EXCEPT !.client_id = UnknownClient]
         IN  /\ (/\ ClientCredentialsGrant(r)
                 /\ ClientCredentialsError(req) = "invalid client secret")
                  => resp'[r].err = ClientCredentialsError(unknown)
             /\ (/\ ExchGetClient(r)
                 /\ ExchangeClientError(req) = "invalid client secret")
                  => resp'[r].err = ExchangeClientError(unknown)]_vars

\* C25: the middleware passes a request on only if its token declares HS256,
\* the algorithm of issuance, and has its expiry in the future; a token
\* declaring another algorithm, also one of the HMAC family signed with the
\* same secret, and an expired token are refused.
C25_OnlyConfiguredAlgorithm ==
    [][\A t \in Redeclared(IssuedAccess) :
         (RequireAuth(t) /\ last'.err = "")
            => (t.alg = "HS256" /\ now < t.exp)]_vars

\* C26: a token request whose grant type is none of authorization_code,
\* client_credentials and refresh_token is answered with the error code
\* UNSUPPORTED_GRANT_TYPE, and the answer creates no token, consumes no code
\* and writes nothing to the revocation list.
C26_UnsupportedGrantType ==
    [][\A r \in Reqs, req \in OtherGrantRequests :
         TokenRefuse(r, req)
            => /\ resp'[r].code = "UNSUPPORTED_GRANT_TYPE"
               /\ tokens' = tokens
               /\ codes' = codes
               /\ revoked' = revoked]_vars

\* C27: RevokeToken changes the revocation status of the identifier of its
\* token only: whenever it writes to the revocation list, IsTokenRevoked
\* answers as before for every other identifier,
\* every other refresh token is redeemed or refused as before, and every other
\* access token is introspected as before.
C27_RevocationPerToken ==
    [][\A t \in IssuedAccess \cup IssuedRefresh :
         (revoked' # revoked /\ RevokeToken(t))
            => /\ \A id \in (1..(2 * MaxTokens)) \ {t.jti} :
                     IsTokenRevoked(id)' = IsTokenRevoked(id)
               /\ \A req \in RefreshRequests(ClientIDs, IssuedRefresh \ {t}) :
                     RefreshError(req)' = RefreshError(req)
               /\ \A a \in IssuedAccess \ {t} :
                     IntrospectResponse(a)' = IntrospectResponse(a)]_vars

\* The access token of the first pair has been revoked and is in the list, and
\* the refresh token of the pair is redeemable
C27_Witness ==
    /\ last = [op |-> "revoke", err |-> ""]
    /\ redisUp
    /\ Len(tokens) >= 1
    /\ IsTokenRevoked(tokens[1].access_token.jti).revoked
    /\ ~IsTokenRevoked(tokens[1].refresh_token.jti).revoked
    /\ \A req \in RefreshRequests({"cA"}, {tokens[1].refresh_token}) :
          RefreshError(req) = ""

\* What a handler reads from the context under a key: the value set, "" for a
\* string key left unset
GetString(key) == IF key.exists THEN key.value ELSE ""

\* C28: RequireAuth passes a request on only if ValidateToken accepts its
\* token and, when the lookup in the revocation list answers, the token's
\* identifier is not in it; with Redis answering, a request bearing a token
\* that has been revoked is never passed on; a refused request is aborted; and
\* the context of a request passed on holds the user id, client id, role,
\* scopes and token id of the token's claims.
C28_RequireAuthGate ==
    [][\A t \in Presented(Bearers) :
         RequireAuth(t)
            => /\ last'.ctx.next
                    => /\ ValidateToken(t) = ""
                       /\ IsTokenRevoked(t.jti).err = ""
                            => ~IsTokenRevoked(t.jti).revoked
               /\ (redisUp /\ \E e \in revoked : e.jti = t.jti)
                    => ~last'.ctx.next
               /\ last'.ctx.next <=> last'.err = ""
               /\ last'.ctx.next
                    => /\ GetString(last'.ctx.user_id) = t.user_id
                       /\ last'.ctx.client_id = Set(t.client_id)
                       /\ GetString(last'.ctx.role) = t.role
                       /\ last'.ctx.scopes = Set(t.scopes)
                       /\ last'.ctx.token_id = Set(t.jti)]_vars

\* With Redis answering, the middleware has just refused a request for its
\* revoked token
C28_Witness ==
    /\ redisUp
    /\ last.op = "auth"
    /\ last.err = "Token has been revoked"
    /\ ~last.ctx.next
    /\ revoked # {}

\* C29: a code exchange that ends with an error leaves the used flag of its
\* code as it was when the exchange began, and, no exchange being under way, a
\* code is marked used only if a token pair has been issued for it.
C29_FailedExchangeKeepsCode ==
    [][\A r \in Reqs :
         /\ (/\ ExchSelect(r) \/ ExchGetClient(r) \/ ExchInsert(r)
             /\ pc'[r] = "idle"
             /\ resp'[r].err # ""
             /\ authCode[r] > 0)
              => ~codes'[authCode[r]].is_used
         /\ (\A q \in Reqs : pc'[q] = "idle")
              => \A i \in 1..Len(codes') :
                    codes'[i].is_used
                       => \E k \in 1..Len(tokens') : tokens'[k].from_code = i]_vars

\* C30: the refresh_token grant issues a pair only for a token that was issued
\* as a refresh token: a request carrying an access token, of the code
\* exchange, of the client_credentials grant or of the login, is refused.
C30_RefreshNeedsRefreshToken ==
    [][\A r \in Reqs :
         /\ (RefreshCheck(r) /\ treq[r].refresh_token \in Bearers)
              => (pc'[r] = "idle" /\ resp'[r].err # "")
         /\ RefreshInsert(r) => treq[r].refresh_token \in IssuedRefresh]_vars

====
